---------------------------- MODULE Spec2Model ----------------------------
(***************************************************************************)
(* A model of WeekendSlicer's Slicer::slice (src/src/main.rs): layer       *)
(* planning, the layer x perimeter loop with its diagnostic dumps, contour *)
(* extraction from the mesh (edge map construction and polyline            *)
(* reconstruction) and the emission of the motion commands.                *)
(*                                                                         *)
(* Lengths along Z (layer_height, z_min, z_max, z_height) are integers in  *)
(* units of 1/250 mm, and f64 arithmetic on them is taken as exact.  An    *)
(* f32 X/Y coordinate is the integer it denotes (0 is 0.0, 1 is 1.0); a    *)
(* vertex's z is an integer in units of 1e-9.  The expression tree, the    *)
(* evaluator and the mesher are external: the mesher's result is a choice  *)
(* among meshes.  The extrusion width and the cross sections, which no     *)
(* branch of slice depends on, are left out of ExtrusionPath.              *)
(***************************************************************************)
EXTENDS Integers, Sequences, FiniteSets, TLC

\* ------------------------------------------------------------- bounds

\* Largest layer height drawn for a run.
MaxLayerHeight == 2
\* Largest z_max drawn for a run.
MaxZ == 2
\* Largest perimeter count drawn for a run.
MaxPerimeters == 2
\* Longest triangle list drawn for the contour extraction's mesh.
MaxTriangles == 3

\* The cap on the layer planning loop, which has no bound of its own when
\* layer_count is infinite; above every finite layer count of the runs drawn.
MaxLayers == MaxZ + 2

\* ---------------------------------------------------------- constants

\* static EPS: f64 = 1e-8, in the units of a vertex's z (1e-9).
EPS == 10

\* ------------------------------------------------------------ helpers

Abs(n) == IF n < 0 THEN -n ELSE n

Range(s) == {s[i] : i \in 1..Len(s)}

\* f32::to_bits on the coordinates used: the IEEE-754 pattern of 0.0, 1.0, 2.0.
to_bits(f) ==
    CASE f = 0 -> 0
      [] f = 1 -> 1065353216
      [] f = 2 -> 1073741824

\* f32::from_bits, on the same patterns.
from_bits(b) ==
    CASE b = 0 -> 0
      [] b = 1065353216 -> 1
      [] b = 1073741824 -> 2

\* format!("{:.2}", z): the sign and the hundredths of a millimetre nearest to
\* z/250 mm, that is to 2z/5 hundredths (whose fraction is never one half, so
\* no tie arises).  A negative z keeps its sign even when it rounds to 0.00.
Fmt2(z) == [neg |-> z < 0, hundredths |-> (4 * Abs(z) + 5) \div 10]

\* The three diagnostic files of a layer, named by the layer's z_height alone.
VmdataFile(z) == <<"debug_data/vmdata_", Fmt2(z), ".bin">>
SettingsFile(z) == <<"debug_data/settings_", Fmt2(z)>>
StlFile(z) == <<"debug_data/temp_", Fmt2(z), ".stl">>

\* ------------------------------------------------------ layer planning

\* layer_index < layer_count, with layer_count = z_range / layer_height in
\* f64: a division by zero gives +inf (z_range > 0), -inf (z_range < 0) or
\* NaN (z_range = 0), and a comparison with NaN is false.
LayerIndexBelowCount(layer_index, z_range, layer_height) ==
    IF layer_height = 0 THEN z_range > 0
    ELSE IF layer_height > 0 THEN layer_index * layer_height < z_range
    ELSE layer_index * layer_height > z_range

\* z_range * layer_index / layer_count - self.z_min: with a finite, nonzero
\* layer_count = z_range / layer_height the quotient is
\* layer_index * layer_height; with an infinite layer_count it is 0.
LayerZHeight(layer_index, z_range, layer_height, z_min) ==
    IF layer_height = 0 THEN 0 - z_min
    ELSE layer_index * layer_height - z_min

Layer_new(z_height, layer_type) ==
    [z_height |-> z_height, layer_type |-> layer_type]

\* (0..self.perimeters).rev(): the index yielded when `remaining` indices are
\* left.
RevNext_asc(perimeters, remaining) == perimeters - remaining
RevNext(perimeters, remaining) == remaining - 1

\* ------------------------------------------------------------- meshes

\* The mesh's vertices: A, B, C, D near the cutting plane (C within EPS of
\* it), E above it over A.
VertexTable ==
    << [x |-> 0, y |-> 0, z |-> 0],
       [x |-> 1, y |-> 0, z |-> 0],
       [x |-> 1, y |-> 1, z |-> 1],
       [x |-> 0, y |-> 1, z |-> 0],
       [x |-> 0, y |-> 0, z |-> 1000000000] >>

OffPlane == Len(VertexTable)

Mesh(triangles) == [vertices |-> VertexTable, triangles |-> triangles]

\* (vertices[i].z as f64).abs() < EPS
AtLayer(mesh, i) == Abs(mesh.vertices[i].z) < EPS

\* The filter of the triangle loop: exactly two of the three vertices at the
\* layer.
NumVerticesAtLayer(mesh, tri) ==
    Cardinality({i \in 1..3 : AtLayer(mesh, tri[i])})

\* The three directed edges tested for a triangle, in the order of the code.
TriangleEdges_flip(tri) ==
    << <<tri[1], tri[2]>>, <<tri[2], tri[3]>>, <<tri[1], tri[3]>> >>
TriangleEdges(tri) ==
    << <<tri[1], tri[2]>>, <<tri[2], tri[3]>>, <<tri[3], tri[1]>> >>

\* [x.to_bits(), y.to_bits()] of a vertex.
BitsOf(mesh, i) == <<to_bits(mesh.vertices[i].x), to_bits(mesh.vertices[i].y)>>

\* Vector2::new(f32::from_bits(k[0]), f32::from_bits(k[1]))
PointOf(k) == <<from_bits(k[1]), from_bits(k[2])>>

\* ------------------------------------------------------------ IndexMap
\* An IndexMap is the sequence of its <<key, value>> entries in index order.

MapIndex(m, k) ==
    IF \E i \in 1..Len(m) : m[i][1] = k
    THEN CHOOSE i \in 1..Len(m) : m[i][1] = k
    ELSE 0

\* IndexMap::insert: a present key keeps its place and takes the new value.
MapInsert(m, k, v) ==
    IF MapIndex(m, k) = 0 THEN Append(m, <<k, v>>)
    ELSE [m EXCEPT ![MapIndex(m, k)] = <<k, v>>]

\* IndexMap::swap_remove: the entry is removed and the last entry takes its
\* place.  [found, value, map]
MapSwapRemove_pop(m, k) ==
    IF MapIndex(m, k) = 0 THEN [found |-> FALSE, value |-> <<>>, map |-> m]
    ELSE [found |-> TRUE, value |-> m[MapIndex(m, k)][2],
          map |-> SubSeq(m, 1, Len(m) - 1)]
MapSwapRemove_get(m, k) ==
    IF MapIndex(m, k) = 0 THEN [found |-> FALSE, value |-> <<>>, map |-> m]
    ELSE [found |-> TRUE, value |-> m[MapIndex(m, k)][2], map |-> m]
MapSwapRemove(m, k) ==
    LET i == MapIndex(m, k)
        n == Len(m)
    IN  IF i = 0 THEN [found |-> FALSE, value |-> <<>>, map |-> m]
        ELSE [found |-> TRUE, value |-> m[i][2],
              map |-> IF i = n THEN SubSeq(m, 1, n - 1)
                      ELSE [SubSeq(m, 1, n - 1) EXCEPT ![i] = m[n]]]

\* IndexMap::first, as the key of the first entry (the map is not empty).
MapFirstKey_value(m) == m[1][2]
MapFirstKey(m) == m[1][1]

\* The inner loop over a triangle's edges: an edge with both ends at the layer
\* is inserted, source bits to destination bits.
RECURSIVE InsertEdges(_, _, _)
InsertEdges(mesh, edges, m) ==
    IF edges = <<>> THEN m
    ELSE LET e == Head(edges)
             m1 == IF AtLayer(mesh, e[1]) /\ AtLayer(mesh, e[2])
                   THEN MapInsert(m, BitsOf(mesh, e[1]), BitsOf(mesh, e[2]))
                   ELSE m
         IN  InsertEdges(mesh, Tail(edges), m1)

\* The loop over the mesh's triangles that builds edge_map_as_bits.
RECURSIVE EdgeMapFrom(_, _, _)
EdgeMapFrom(mesh, triangles, m) ==
    IF triangles = <<>> THEN m
    ELSE LET tri == Head(triangles)
             m1 == IF NumVerticesAtLayer(mesh, tri) = 2
                   THEN InsertEdges(mesh, TriangleEdges(tri), m)
                   ELSE m
         IN  EdgeMapFrom(mesh, Tail(triangles), m1)

\* ------------------------------------------------------ ExtrusionPath

\* ExtrusionPath::new: the path holds its start point.  layer, perimeter and
\* seq are history fields: the unit that started the path and, once pushed,
\* its rank among the paths pushed.
ExtrusionPath_new(z_height, start, layer, perimeter) ==
    [z_height |-> z_height, paths |-> <<start>>,
     layer |-> layer, perimeter |-> perimeter, seq |-> 0]

add_to_path(path, point) == [path EXCEPT !.paths = Append(@, point)]

\* extrusion_paths.push(curr_path.clone())
PushPath_front(list, path, seq) == <<[path EXCEPT !.seq = seq]>> \o list
PushPath(list, path, seq) == Append(list, [path EXCEPT !.seq = seq])

\* The number of write! calls of write_gcode for a path: two for the first
\* point, one for each window of two points, none for an empty path.
NumCommands(path) ==
    IF path.paths = <<>> THEN 0 ELSE 2 + (Len(path.paths) - 1)

\* -------------------------------------------------------------- state

VARIABLES
    pc,               \* the position in main / Slicer::slice
    slicer,           \* the Slicer's fields read by slice
    layer_index,      \* the planning loop's counter
    layers,           \* Vec<Layer>
    li,               \* the position of `for layer in layers` (0 before it)
    perimeter_iter,   \* the indices (0..perimeters).rev() has left to yield
    perimeter,        \* the perimeter index of the unit in hand
    perimeter_mesh,   \* the unit's mesh
    edge_map_as_bits, \* the unit's IndexMap
    curr_path,        \* the path under construction
    extrusion_paths,  \* Vec<ExtrusionPath>
    output_gcode,     \* the command lines written to output.gcode
    emit_index,       \* the position of `for extrusion_path in extrusion_paths`
    gcode_error,      \* creating or writing output.gcode has failed
    diag_error,       \* a diagnostic write has failed and was ignored
    panic,            \* the unwrap / expect that ended the run, or "none"
    writes,           \* history: <<file, layer, perimeter>> of each file created
    processed,        \* history: the units whose extraction has ended
    edge_map0,        \* history: the unit's map as built, before reconstruction
    iterations,       \* history: iterations of the unit's reconstruction loop
    lookup,           \* history: the last swap_remove of the unit: hit, miss, none
    started           \* history: the paths the unit has started

vars == << pc, slicer, layer_index, layers, li, perimeter_iter, perimeter,
           perimeter_mesh, edge_map_as_bits, curr_path, extrusion_paths,
           output_gcode, emit_index, gcode_error, diag_error, panic, writes,
           processed, edge_map0, iterations, lookup, started >>

NoPath == [z_height |-> 0, paths |-> <<>>, layer |-> 0, perimeter |-> 0,
           seq |-> 0]

\* The layer of the unit in hand.
layer == layers[li]

\* The runs drawn: the command line's layer_height, perimeters, z_min, z_max.
Slicer_new ==
    [layer_height : -1..MaxLayerHeight, perimeters : 0..MaxPerimeters,
     z_min : 0..1, z_max : 0..MaxZ]

\* The meshes the mesher is taken to return in a full run: no triangle at
\* all, or a mesh with a chain A -> B, a loop C -> C and a triangle that the
\* filter drops.
MeshChoices ==
    { Mesh(<<>>),
      Mesh(<< <<1, 2, OffPlane>>, <<1, 2, 4>>, <<OffPlane, 3, 3>> >>) }

\* main: Slicer::new, then slice is entered.
Init ==
    /\ pc = "plan"
    /\ slicer \in Slicer_new
    /\ layer_index = 0
    /\ layers = <<>>
    /\ li = 0
    /\ perimeter_iter = 0
    /\ perimeter = 0
    /\ perimeter_mesh = Mesh(<<>>)
    /\ edge_map_as_bits = <<>>
    /\ curr_path = NoPath
    /\ extrusion_paths = <<>>
    /\ output_gcode = 0
    /\ emit_index = 0
    /\ gcode_error = FALSE
    /\ diag_error = FALSE
    /\ panic = "none"
    /\ writes = {}
    /\ processed = {}
    /\ edge_map0 = <<>>
    /\ iterations = 0
    /\ lookup = "none"
    /\ started = 0

\* ------------------------------------------------------------ actions

\* One test of the planning loop `while layer_index < layer_count`, with its
\* body when the test holds.
PlanLayers ==
    /\ pc = "plan"
    /\ LET z_range == slicer.z_max - slicer.z_min
       IN  IF LayerIndexBelowCount(layer_index, z_range, slicer.layer_height)
           THEN /\ Len(layers) < MaxLayers
                /\ layers' = Append(layers,
                       Layer_new(LayerZHeight(layer_index, z_range,
                                     slicer.layer_height, slicer.z_min),
                                 "Standard"))
                /\ layer_index' = layer_index + 1
                /\ pc' = pc
           ELSE /\ pc' = "layer"
                /\ UNCHANGED <<layers, layer_index>>
    /\ UNCHANGED << slicer, li, perimeter_iter, perimeter, perimeter_mesh,
                    edge_map_as_bits, curr_path, extrusion_paths,
                    output_gcode, emit_index, gcode_error, diag_error, panic,
                    writes, processed, edge_map0, iterations, lookup, started >>

\* `for layer in layers`: the next layer, whose perimeter range starts, or the
\* end of the loop.
NextLayer ==
    /\ pc = "layer"
    /\ IF li < Len(layers)
       THEN /\ li' = li + 1
            /\ perimeter_iter' = slicer.perimeters
            /\ pc' = "perimeter"
       ELSE /\ pc' = "emit_create"
            /\ UNCHANGED <<li, perimeter_iter>>
    /\ UNCHANGED << slicer, layer_index, layers, perimeter, perimeter_mesh,
                    edge_map_as_bits, curr_path, extrusion_paths,
                    output_gcode, emit_index, gcode_error, diag_error, panic,
                    writes, processed, edge_map0, iterations, lookup, started >>

\* `for perimeter in (0..self.perimeters).rev()`: the next index, or the end of
\* the layer.
NextPerimeter ==
    /\ pc = "perimeter"
    /\ IF perimeter_iter > 0
       THEN /\ perimeter' = RevNext(slicer.perimeters, perimeter_iter)
            /\ perimeter_iter' = perimeter_iter - 1
            /\ pc' = "vmdata"
       ELSE /\ pc' = "layer"
            /\ UNCHANGED <<perimeter, perimeter_iter>>
    /\ UNCHANGED << slicer, layer_index, layers, li, perimeter_mesh,
                    edge_map_as_bits, curr_path, extrusion_paths,
                    output_gcode, emit_index, gcode_error, diag_error, panic,
                    writes, processed, edge_map0, iterations, lookup, started >>

\* The unit in hand begins: the perimeter tree is imported and compiled
\* (VmData::new(..).unwrap()), debug_data/vmdata_<z>.bin is created
\* (.unwrap()) and the VmData serialized into it, the result dropped.
DumpVmdata ==
    /\ pc = "vmdata"
    /\ \E vm_ok, created, written \in BOOLEAN :
          IF ~vm_ok
          THEN /\ pc' = "panicked"
               /\ panic' = "VmData::new"
               /\ UNCHANGED <<writes, diag_error>>
          ELSE IF ~created
          THEN /\ pc' = "panicked"
               /\ panic' = "create vmdata"
               /\ UNCHANGED <<writes, diag_error>>
          ELSE /\ pc' = "settings"
               /\ writes' = writes \cup
                     {<<VmdataFile(layer.z_height), li, perimeter>>}
               /\ diag_error' = (diag_error \/ ~written)
               /\ UNCHANGED panic
    /\ UNCHANGED << slicer, layer_index, layers, li, perimeter_iter, perimeter,
                    perimeter_mesh, edge_map_as_bits, curr_path,
                    extrusion_paths, output_gcode, emit_index, gcode_error,
                    processed, edge_map0, iterations, lookup, started >>

\* The tree is exported again (.expect(..)), debug_data/settings_<z> is
\* created (.unwrap()) and five lines are written to it, the results dropped.
DumpSettings ==
    /\ pc = "settings"
    /\ \E exported, created, written \in BOOLEAN :
          IF ~exported
          THEN /\ pc' = "panicked"
               /\ panic' = "export"
               /\ UNCHANGED <<writes, diag_error>>
          ELSE IF ~created
          THEN /\ pc' = "panicked"
               /\ panic' = "create settings"
               /\ UNCHANGED <<writes, diag_error>>
          ELSE /\ pc' = "mesh"
               /\ writes' = writes \cup
                     {<<SettingsFile(layer.z_height), li, perimeter>>}
               /\ diag_error' = (diag_error \/ ~written)
               /\ UNCHANGED panic
    /\ UNCHANGED << slicer, layer_index, layers, li, perimeter_iter, perimeter,
                    perimeter_mesh, edge_map_as_bits, curr_path,
                    extrusion_paths, output_gcode, emit_index, gcode_error,
                    processed, edge_map0, iterations, lookup, started >>

\* Octree::build and walk_dual: the mesher returns a mesh.
BuildMesh ==
    /\ pc = "mesh"
    /\ perimeter_mesh' \in MeshChoices
    /\ pc' = "stl"
    /\ UNCHANGED << slicer, layer_index, layers, li, perimeter_iter, perimeter,
                    edge_map_as_bits, curr_path, extrusion_paths,
                    output_gcode, emit_index, gcode_error, diag_error, panic,
                    writes, processed, edge_map0, iterations, lookup, started >>

\* debug_data/temp_<z>.stl is created (.unwrap()) and the mesh written to it,
\* the result dropped.
DumpStl ==
    /\ pc = "stl"
    /\ \E created, written \in BOOLEAN :
          IF ~created
          THEN /\ pc' = "panicked"
               /\ panic' = "create stl"
               /\ UNCHANGED <<writes, diag_error>>
          ELSE /\ pc' = "edges"
               /\ writes' = writes \cup
                     {<<StlFile(layer.z_height), li, perimeter>>}
               /\ diag_error' = (diag_error \/ ~written)
               /\ UNCHANGED panic
    /\ UNCHANGED << slicer, layer_index, layers, li, perimeter_iter, perimeter,
                    perimeter_mesh, edge_map_as_bits, curr_path,
                    extrusion_paths, output_gcode, emit_index, gcode_error,
                    processed, edge_map0, iterations, lookup, started >>

\* edge_map_as_bits is built from the triangles with two vertices at the
\* layer.
BuildEdgeMap ==
    /\ pc = "edges"
    /\ edge_map_as_bits' =
          EdgeMapFrom(perimeter_mesh, perimeter_mesh.triangles, <<>>)
    /\ edge_map0' = edge_map_as_bits'
    /\ iterations' = 0
    /\ lookup' = "none"
    /\ started' = 0
    /\ pc' = "recon_start"
    /\ UNCHANGED << slicer, layer_index, layers, li, perimeter_iter, perimeter,
                    perimeter_mesh, curr_path, extrusion_paths, output_gcode,
                    emit_index, gcode_error, diag_error, panic, writes,
                    processed >>

\* match edge_map_as_bits.first(): a first path is started at the first key,
\* or, the map being empty, the unit ends with no path.
ReconStart ==
    /\ pc = "recon_start"
    /\ IF edge_map_as_bits # <<>>
       THEN /\ curr_path' = ExtrusionPath_new(
                                layer.z_height + slicer.layer_height,
                                PointOf(MapFirstKey(edge_map_as_bits)),
                                li, perimeter)
            /\ started' = started + 1
            /\ pc' = "recon_loop"
            /\ UNCHANGED processed
       ELSE /\ pc' = "perimeter"
            /\ processed' = processed \cup {<<li, perimeter>>}
            /\ UNCHANGED <<curr_path, started>>
    /\ UNCHANGED << slicer, layer_index, layers, li, perimeter_iter, perimeter,
                    perimeter_mesh, edge_map_as_bits, extrusion_paths,
                    output_gcode, emit_index, gcode_error, diag_error, panic,
                    writes, edge_map0, iterations, lookup >>

\* last_point_in_path_as_bits of the path under construction.
last_point_in_path_as_bits(path) ==
    IF path.paths = <<>> THEN <<>>
    ELSE LET l == path.paths[Len(path.paths)]
         IN  <<to_bits(l[1]), to_bits(l[2])>>

\* One iteration of `while !edge_map_as_bits.is_empty()`, the test that
\* follows it and ends the unit included.
ReconStep ==
    /\ pc = "recon_loop"
    /\ edge_map_as_bits # <<>>
    /\ iterations' = iterations + 1
    /\ IF curr_path.paths = <<>>
       THEN \* .unwrap() of None
            /\ pc' = "panicked"
            /\ panic' = "last_point"
            /\ UNCHANGED << edge_map_as_bits, curr_path, extrusion_paths,
                            lookup, started, processed >>
       ELSE LET last_point == last_point_in_path_as_bits(curr_path)
                next_point == MapSwapRemove(edge_map_as_bits, last_point)
                seq == Len(extrusion_paths) + 1
            IN  /\ edge_map_as_bits' = next_point.map
                /\ UNCHANGED panic
                /\ IF next_point.found
                   THEN LET grown == add_to_path(curr_path,
                                                 PointOf(next_point.value))
                        IN  /\ curr_path' = grown
                            /\ lookup' = "hit"
                            /\ UNCHANGED started
                            /\ IF next_point.map = <<>>
                               THEN /\ extrusion_paths' =
                                          PushPath(extrusion_paths, grown, seq)
                                    /\ pc' = "perimeter"
                                    /\ processed' =
                                          processed \cup {<<li, perimeter>>}
                               ELSE /\ pc' = pc
                                    /\ UNCHANGED <<extrusion_paths, processed>>
                   ELSE /\ extrusion_paths' =
                              PushPath(extrusion_paths, curr_path, seq)
                        /\ lookup' = "miss"
                        /\ curr_path' = ExtrusionPath_new(
                                layer.z_height + slicer.layer_height,
                                PointOf(MapFirstKey(edge_map_as_bits)),
                                li, perimeter)
                        /\ started' = started + 1
                        /\ pc' = pc
                        /\ UNCHANGED processed
    /\ UNCHANGED << slicer, layer_index, layers, li, perimeter_iter, perimeter,
                    perimeter_mesh, output_gcode, emit_index, gcode_error,
                    diag_error, writes, edge_map0 >>

\* fs::File::create("output.gcode").unwrap()
CreateOutput ==
    /\ pc = "emit_create"
    /\ \E created \in BOOLEAN :
          IF created
          THEN /\ pc' = "emit"
               /\ emit_index' = 1
               /\ UNCHANGED <<panic, gcode_error>>
          ELSE /\ pc' = "panicked"
               /\ panic' = "create output"
               /\ gcode_error' = TRUE
               /\ UNCHANGED emit_index
    /\ UNCHANGED << slicer, layer_index, layers, li, perimeter_iter, perimeter,
                    perimeter_mesh, edge_map_as_bits, curr_path,
                    extrusion_paths, output_gcode, diag_error, writes,
                    processed, edge_map0, iterations, lookup, started >>

\* ExtrusionPath::write_gcode when the first `good` write! calls succeed: the
\* lines written, and whether it returns Ok.
write_gcode(path, good) ==
    [lines |-> IF good < NumCommands(path) THEN good ELSE NumCommands(path),
     ok |-> good >= NumCommands(path)]

\* One turn of `for extrusion_path in extrusion_paths`: write_gcode is called
\* and its Result dropped; after the last path slice returns.
EmitPath ==
    /\ pc = "emit"
    /\ IF emit_index <= Len(extrusion_paths)
       THEN \E good \in 0..NumCommands(extrusion_paths[emit_index]) :
              LET r == write_gcode(extrusion_paths[emit_index], good)
              IN  /\ output_gcode' = output_gcode + r.lines
                  /\ gcode_error' = (gcode_error \/ ~r.ok)
                  /\ emit_index' = emit_index + 1
                  /\ pc' = pc
       ELSE /\ pc' = "done"
            /\ UNCHANGED <<output_gcode, gcode_error, emit_index>>
    /\ UNCHANGED << slicer, layer_index, layers, li, perimeter_iter, perimeter,
                    perimeter_mesh, edge_map_as_bits, curr_path,
                    extrusion_paths, diag_error, panic, writes, processed,
                    edge_map0, iterations, lookup, started >>

\* ------------------------------------------------------ specifications

\* A whole run of slice.
Next ==
    \/ PlanLayers
    \/ NextLayer
    \/ NextPerimeter
    \/ DumpVmdata
    \/ DumpSettings
    \/ BuildMesh
    \/ DumpStl
    \/ BuildEdgeMap
    \/ ReconStart
    \/ ReconStep
    \/ CreateOutput
    \/ EmitPath

Spec == Init /\ [][Next]_vars

\* The triangles drawn for the contour extraction of one unit, over A, B, C
\* and the vertex off the plane: every directed plane edge (a loop a -> a
\* included) as <<a, b, E>>, two rotations of a triangle, a triangle with
\* three vertices at the layer and one with a single vertex at it.
TriangleChoices ==
    {<<a, b, OffPlane>> : a, b \in 1..3}
      \cup { <<OffPlane, 1, 2>>, <<2, OffPlane, 1>>, <<1, 2, 3>>,
             <<1, OffPlane, OffPlane>> }

ContourMeshes ==
    {Mesh(t) : t \in UNION {[1..n -> TriangleChoices] : n \in 0..MaxTriangles}}

\* The six vertex orders of a triangle.
VertexOrders(u, v, w) ==
    << <<u, v, w>>, <<v, w, u>>, <<w, u, v>>,
       <<v, u, w>>, <<u, w, v>>, <<w, v, u>> >>

\* The sides of the loop A B C D on the cutting plane.
LoopSides == << <<1, 2>>, <<2, 3>>, <<3, 4>>, <<4, 1>> >>

\* The meshes of four triangles, one on each side of the loop with the vertex
\* off the plane as its third vertex, in every triangle order and every vertex
\* order.
LoopMeshes ==
    { Mesh([i \in 1..4 |->
              VertexOrders(LoopSides[sigma[i]][1], LoopSides[sigma[i]][2],
                           OffPlane)[o[i]]]) :
        sigma \in Permutations(1..4), o \in [1..4 -> 1..6] }

\* The state in which the mesher has returned `meshes`' mesh for the one unit
\* of a run of one layer and one perimeter, the unit's dumps written.
UnitInit(meshes) ==
    /\ pc = "edges"
    /\ slicer = [layer_height |-> 1, perimeters |-> 1, z_min |-> 0,
                 z_max |-> 1]
    /\ layer_index = 1
    /\ layers = <<Layer_new(0, "Standard")>>
    /\ li = 1
    /\ perimeter_iter = 0
    /\ perimeter = 0
    /\ perimeter_mesh \in meshes
    /\ edge_map_as_bits = <<>>
    /\ curr_path = NoPath
    /\ extrusion_paths = <<>>
    /\ output_gcode = 0
    /\ emit_index = 0
    /\ gcode_error = FALSE
    /\ diag_error = FALSE
    /\ panic = "none"
    /\ writes = { <<VmdataFile(0), 1, 0>>, <<SettingsFile(0), 1, 0>>,
                  <<StlFile(0), 1, 0>> }
    /\ processed = {}
    /\ edge_map0 = <<>>
    /\ iterations = 0
    /\ lookup = "none"
    /\ started = 0

\* The contour extraction of one unit.
NextContour ==
    \/ BuildEdgeMap
    \/ ReconStart
    \/ ReconStep

InitContour == UnitInit(ContourMeshes)

\* The extraction on any mesh drawn.
SpecContour == InitContour /\ [][NextContour]_vars

InitLoop == UnitInit(LoopMeshes)

\* The extraction on the meshes of one 4-edge loop.
SpecLoop == InitLoop /\ [][NextContour]_vars

\* ------------------------------------------------------------- claims

\* The points of the loop A B C D.
LoopPoints == {<<VertexTable[i].x, VertexTable[i].y>> : i \in 1..4}

\* The three rotations of a triangle's vertex order.
Rotations(u, v, w) == {<<u, v, w>>, <<v, w, u>>, <<w, u, v>>}

\* Every triangle of the mesh is wound the same way round the loop: each has
\* its side's vertices in loop order before the third vertex, or each has them
\* in the reverse order.
ConsistentlyWound(mesh) ==
    \/ \A t \in Range(mesh.triangles) :
          \E i \in 1..4 :
            t \in Rotations(LoopSides[i][1], LoopSides[i][2], OffPlane)
    \/ \A t \in Range(mesh.triangles) :
          \E i \in 1..4 :
            t \in Rotations(LoopSides[i][2], LoopSides[i][1], OffPlane)

\* The unit in hand has pushed exactly one path, which visits the four loop
\* points and ends at its first point.
OneClosedLoopPath ==
    /\ Len(extrusion_paths) = 1
    /\ Range(extrusion_paths[1].paths) = LoopPoints
    /\ extrusion_paths[1].paths[Len(extrusion_paths[1].paths)]
         = extrusion_paths[1].paths[1]

\* C1 as stated: on a mesh of one closed 4-edge loop (four selected
\* triangles, one plane edge each), whatever the vertex order inside each
\* triangle and whatever the triangle order, the extraction appends exactly
\* one path, which visits the 4 loop points and ends at its first point.
C1_AnyVertexOrder ==
    pc = "perimeter" => OneClosedLoopPath

\* C1 amended: the same, for the meshes whose four triangles are wound the
\* same way round the loop (any rotation of each triangle's vertices, any
\* triangle order).
C1_ConsistentWinding ==
    (pc = "perimeter" /\ ConsistentlyWound(perimeter_mesh))
        => OneClosedLoopPath

\* C1's case: a consistently wound loop mesh whose triangles are neither in
\* loop order nor all in the same rotation has been extracted.
C1_Witness ==
    /\ pc = "perimeter"
    /\ ConsistentlyWound(perimeter_mesh)
    /\ perimeter_mesh.triangles[1] = <<OffPlane, 3, 4>>
    /\ perimeter_mesh.triangles[2] = <<2, OffPlane, 1>>
    /\ Len(extrusion_paths) = 1
    /\ Len(extrusion_paths[1].paths) = 5

\* The positions of slice past the planning of the layers.
PastPlanning ==
    { "layer", "perimeter", "vmdata", "settings", "mesh", "stl", "edges",
      "recon_start", "recon_loop", "emit_create", "emit", "done" }

\* C2: with layer_height <= 0 the run fails before any layer is planned: no
\* layer list is built (no layer is pushed and the planning loop is never
\* left with a list, empty or not), so the mesher is never called and no
\* output is written.
C2_NonPositiveLayerHeightRejected ==
    slicer.layer_height <= 0 => (layers = <<>> /\ pc \notin PastPlanning)

\* The unwraps of the diagnostic files' creation.
DiagnosticPanics == {"create vmdata", "create settings", "create stl"}

\* C3: a failure to create or write a diagnostic artifact never aborts
\* slicing: no run ends on a diagnostic file's failure.
C3_DiagnosticFailureNeverAborts ==
    panic \notin DiagnosticPanics

\* C4: a failure to create output.gcode or to write a command of a path is
\* fatal: once one has happened the run is in its failure state, neither
\* writing later paths nor done.
C4_OutputFailureFatal ==
    gcode_error => pc = "panicked"

\* The units of the run: every layer with every perimeter index.
AllUnits == (1..Len(layers)) \X (0..(slicer.perimeters - 1))

\* C5: the output list is ordered by layer (ascending), then perimeter
\* (descending from perimeters - 1), then the order in which the paths were
\* closed, and the emitter takes the paths in list order, each once, only when
\* every unit has been processed.
C5_PathOrder ==
    /\ \A a, b \in 1..Len(extrusion_paths) :
          a < b =>
            /\ extrusion_paths[a].layer <= extrusion_paths[b].layer
            /\ extrusion_paths[a].layer = extrusion_paths[b].layer
                  => extrusion_paths[a].perimeter >= extrusion_paths[b].perimeter
            /\ extrusion_paths[a].seq < extrusion_paths[b].seq
    /\ \A a \in 1..Len(extrusion_paths) :
          extrusion_paths[a].perimeter \in 0..(slicer.perimeters - 1)
    /\ pc \in {"emit_create", "emit", "done"} => processed = AllUnits
    /\ pc \notin {"emit", "done"} => (emit_index = 0 /\ output_gcode = 0)
    /\ pc = "emit" => emit_index \in 1..(Len(extrusion_paths) + 1)
    /\ pc = "done" => emit_index = Len(extrusion_paths) + 1

\* C5's case: a finished run of two layers and two perimeters in which every
\* unit pushed two paths.
C5_Witness ==
    /\ pc = "done"
    /\ Len(layers) = 2
    /\ slicer.perimeters = 2
    /\ Len(extrusion_paths) = 8
    /\ extrusion_paths[1].perimeter = 1
    /\ extrusion_paths[3].perimeter = 0
    /\ extrusion_paths[5].layer = 2

\* C6: two distinct units write no common location besides the output list:
\* no diagnostic file is written by two units.
C6_UnitsWriteDisjointFiles ==
    \A w1, w2 \in writes :
        w1[1] = w2[1] => (w1[2] = w2[2] /\ w1[3] = w2[3])

\* C7: with layer_height > 0 and z_max > z_min every layer planned has
\* z_min <= z_height < z_max, and the first layer's z_height is z_min.
C7_LayersSpanRange ==
    (slicer.layer_height > 0 /\ slicer.z_max > slicer.z_min) =>
        /\ \A i \in 1..Len(layers) :
              /\ slicer.z_min <= layers[i].z_height
              /\ layers[i].z_height < slicer.z_max
        /\ layers # <<>> => layers[1].z_height = slicer.z_min

\* C8: the reconstruction loop terminates, with the map empty; a lookup miss
\* is followed by a lookup hit, and the loop makes at most two iterations for
\* each entry of the map.  Termination is stated on finite runs: the loop can
\* always take its next step, every step it takes is counted in iterations,
\* and iterations never exceeds twice the entries of the map as built; and
\* the loop is left only with the map empty.
C8_LoopTerminates ==
    /\ [](iterations <= 2 * Len(edge_map0))
    /\ [](pc = "recon_loop" => ENABLED ReconStep)
    /\ [][pc = "recon_loop" => iterations' = iterations + 1]_vars
    /\ [](pc = "perimeter" => edge_map_as_bits = <<>>)
    /\ [][(lookup = "miss" /\ iterations' = iterations + 1)
            => lookup' = "hit"]_vars

\* C8's case: a map of three entries whose reconstruction missed twice (three
\* components, or chains entered in the middle) has been emptied.
C8_Witness ==
    /\ pc = "perimeter"
    /\ Len(edge_map0) = 3
    /\ iterations = 5
    /\ edge_map_as_bits = <<>>

\* The paths pushed by the unit in hand.
UnitPaths ==
    SelectSeq(extrusion_paths,
              LAMBDA p : p.layer = li /\ p.perimeter = perimeter)

\* The places of the unit's paths where the segment from -> to stands.
SegmentPlaces(from, to) ==
    { <<j, i>> \in (1..Len(UnitPaths)) \X (1..(Len(edge_map0) + 1)) :
        /\ i < Len(UnitPaths[j].paths)
        /\ UnitPaths[j].paths[i] = from
        /\ UnitPaths[j].paths[i + 1] = to }

RECURSIVE SegmentCount(_)
SegmentCount(ps) ==
    IF ps = <<>> THEN 0 ELSE (Len(Head(ps).paths) - 1) + SegmentCount(Tail(ps))

\* C9: when the loop has ended, every entry k -> v of the map as built is a
\* segment (k, v) at exactly one place of the unit's paths, every segment of
\* those paths is an entry, every path started has been pushed exactly once,
\* and the segments number as many as the entries.
C9_EdgesKept ==
    (pc = "perimeter" /\ <<li, perimeter>> \in processed) =>
        /\ \A e \in Range(edge_map0) :
              Cardinality(SegmentPlaces(PointOf(e[1]), PointOf(e[2]))) = 1
        /\ \A j \in 1..Len(UnitPaths) :
              \A i \in 1..(Len(UnitPaths[j].paths) - 1) :
                \E e \in Range(edge_map0) :
                  /\ PointOf(e[1]) = UnitPaths[j].paths[i]
                  /\ PointOf(e[2]) = UnitPaths[j].paths[i + 1]
        /\ Len(UnitPaths) = started
        /\ \A j, k \in 1..Len(UnitPaths) :
              UnitPaths[j].seq = UnitPaths[k].seq => j = k
        /\ SegmentCount(UnitPaths) = Len(edge_map0)

\* C9's case: a map of two entries in two components, built from more
\* triangles than it has entries (a key overwritten, or a triangle dropped),
\* has been reconstructed into two paths.
C9_Witness ==
    /\ pc = "perimeter"
    /\ <<li, perimeter>> \in processed
    /\ Len(perimeter_mesh.triangles) > Len(edge_map0)
    /\ Len(edge_map0) = 2
    /\ Len(UnitPaths) = 2

\* C10: every path pushed has at least 2 points, and the unwrap of the last
\* point of the path under construction never fails.
C10_PathsHaveSegment ==
    /\ \A j \in 1..Len(extrusion_paths) : Len(extrusion_paths[j].paths) >= 2
    /\ panic # "last_point"

\* C10's case: a lookup has missed and a path of exactly two points was
\* pushed, then a second path.
C10_Witness ==
    /\ pc = "perimeter"
    /\ Len(extrusion_paths) = 2
    /\ Len(extrusion_paths[1].paths) = 2
    /\ Len(extrusion_paths[2].paths) = 2

=============================================================================
